---- MODULE Spec2Model ----
(***************************************************************************)
(* Model of the product API of step4backend: app/main.py (application,     *)
(* lifespan, global exception handler, liveness endpoints) and             *)
(* app/routers/products.py (get_product_by_code, get_products).            *)
(*                                                                         *)
(* A request is followed through the steps the code performs: parameter    *)
(* validation (the Path(...) constraints), the awaited db.execute (the     *)
(* only suspension point, where other requests interleave), the rest of    *)
(* the try block with its except clauses, and the conversion of a raised   *)
(* HTTPException into the JSON response.                                   *)
(*                                                                         *)
(* Python integers are unbounded and the code bound has 26 digits, so an   *)
(* integer is a record [neg, digits] with its decimal digits, most         *)
(* significant first, and the comparisons are done on the digits.          *)
(***************************************************************************)
EXTENDS Integers, Sequences, FiniteSets, TLC

(***************************************************************************)
(* Bounds of the model.                                                    *)
(***************************************************************************)
MaxPrdId == 3      \* the small stores hold rows with prd_id in 1..MaxPrdId
MaxLimit == 2      \* explicit limit parameters range over -1..MaxLimit
MaxOffset == 1     \* explicit offset parameters range over -1..MaxOffset

Requests == {"r1", "r2"}   \* request tasks that can be in flight together

(***************************************************************************)
(* Program constants.                                                      *)
(***************************************************************************)
DefaultLimit == 100    \* limit: int = 100
DefaultOffset == 0     \* offset: int = 0
DocMaxDigits == 25     \* docstring of get_product_by_code: 1-25 digits

(***************************************************************************)
(* Unbounded integers.                                                     *)
(***************************************************************************)
RECURSIVE Digits(_)
Digits(n) == IF n < 10 THEN <<n>> ELSE Append(Digits(n \div 10), n % 10)

IntVal(n) == [neg |-> n < 0, digits |-> Digits(IF n < 0 THEN 0 - n ELSE n)]

Nines(k) == [neg |-> FALSE, digits |-> [i \in 1..k |-> 9]]

Pow10(k) == [neg |-> FALSE, digits |-> <<1>> \o [i \in 1..k |-> 0]]

MagLess(a, b) ==
    \/ Len(a) < Len(b)
    \/ /\ Len(a) = Len(b)
       /\ \E i \in 1..Len(a) :
            /\ a[i] < b[i]
            /\ \A j \in 1..(i - 1) : a[j] = b[j]

\* a <= b on unbounded integers
IntLE(a, b) ==
    IF a.neg # b.neg THEN a.neg
    ELSE IF a.neg THEN a.digits = b.digits \/ MagLess(b.digits, a.digits)
    ELSE a.digits = b.digits \/ MagLess(a.digits, b.digits)

\* ge=1
MinCode == IntVal(1)

\* le=99999999999999999999999999
MaxCode ==
    [neg |-> FALSE,
     digits |-> <<9, 9, 9, 9, 9, 9, 9, 9, 9, 9, 9, 9, 9,
                  9, 9, 9, 9, 9, 9, 9, 9, 9, 9, 9, 9, 9>>]

\* the constraint with ge=0 in place of ge=1
CodeInRange_FromZero(code) == IntLE(IntVal(0), code) /\ IntLE(code, MaxCode)

\* the Path(..., ge=1, le=...) constraint on code
CodeInRange(code) == IntLE(MinCode, code) /\ IntLE(code, MaxCode)

(***************************************************************************)
(* The product store: a set of Product rows, prd_id unique.  The store is  *)
(* written by an external process, so a code may occur in several rows.    *)
(***************************************************************************)
Row(id, code) == [prd_id |-> id, code |-> code, name |-> "item"]

\* the code of the candidate row with this prd_id: rows 1 and 2 share a
\* code, row 3 has the largest code the lookup accepts
CodeOfId(id) == IF id <= 2 THEN IntVal(1) ELSE IF id = 3 THEN MaxCode ELSE IntVal(id)

SmallStores == { { Row(id, CodeOfId(id)) : id \in ids } : ids \in SUBSET (1..MaxPrdId) }

\* more rows than the default limit, all codes distinct
BigStore == { Row(id, IntVal(id)) : id \in 1..(DefaultLimit + 1) }

Stores == SmallStores \cup {BigStore}

\* the codes requests are made with
CodeInputs ==
    { IntVal(0 - 1), IntVal(0), IntVal(1),
      Nines(DocMaxDigits), Pow10(DocMaxDigits),
      MaxCode, Pow10(Len(MaxCode.digits)) }

\* an absent query parameter is <<>>, a given one is <<n>>; requests come
\* with no parameter or with both
PageInputs ==
    {[limit |-> <<>>, offset |-> <<>>]} \cup
    { [limit |-> <<l>>, offset |-> <<o>>] :
        l \in (0 - 1)..MaxLimit, o \in (0 - 1)..MaxOffset }

VARIABLES
    phase,      \* "starting", "serving", "failed": the application's lifespan
    storeUp,    \* whether the database answers
    store,      \* the Product table
    pc,         \* per request: "idle", "validated", "executed", "done", "refused"
    endpoint,   \* per request: the route it is for
    params,     \* per request: [code, limit, offset]
    result,     \* per request: what the awaited db.execute gave
    queried,    \* per request: whether db.execute ran for it
    response    \* per request: [status, body]

vars == <<phase, storeUp, store, pc, endpoint, params, result, queried, response>>

NoParams == [code |-> IntVal(0), limit |-> <<>>, offset |-> <<>>]
NoResult == [kind |-> "none", rows |-> <<>>, text |-> ""]
NoResponse == [status |-> 0, body |-> [none |-> TRUE]]

Init ==
    /\ phase = "starting"
    /\ storeUp \in BOOLEAN
    /\ store \in Stores
    /\ pc = [r \in Requests |-> "idle"]
    /\ endpoint = [r \in Requests |-> "none"]
    /\ params = [r \in Requests |-> NoParams]
    /\ result = [r \in Requests |-> NoResult]
    /\ queried = [r \in Requests |-> FALSE]
    /\ response = [r \in Requests |-> NoResponse]

(***************************************************************************)
(* Exceptions and handler outcomes.  cls is the class the except clauses   *)
(* dispatch on; text is str(e).                                            *)
(***************************************************************************)
NoDetail == [none |-> TRUE]

HTTPException(status_code, detail) ==
    [cls |-> "HTTPException", status_code |-> status_code, detail |-> detail, text |-> ""]

SQLAlchemyError(text) ==
    [cls |-> "SQLAlchemyError", status_code |-> 0, detail |-> NoDetail, text |-> text]

OtherException(text) ==
    [cls |-> "Exception", status_code |-> 0, detail |-> NoDetail, text |-> text]

Return(value) == [kind |-> "return", value |-> value]
Raise(exc) == [kind |-> "raise", exc |-> exc]

\* str(e) of the exceptions the store layer and the rest of the try block raise
TextConnection == "OperationalError: connection refused"
TextSyntax == "ProgrammingError: negative LIMIT or OFFSET"
TextMultiple == "Multiple rows were found when one or none was required"
TextOther == "RuntimeError: boom"

\* The fixed message texts of the handlers (Japanese in the source, rendered
\* here in ASCII): not registered / database error / internal server error.
MsgNotFound == "shitei sareta shohin code wa toroku sarete imasen"
MsgDatabase == "database shori-chu ni error ga hassei shimashita"
MsgInternal == "server naibu error ga hassei shimashita"

(***************************************************************************)
(* The store queries.                                                      *)
(***************************************************************************)
RECURSIVE SortRange(_, _, _)
\* the rows, all with lo <= prd_id <= hi, in ascending prd_id order (prd_id
\* is the primary key: no two rows share one)
SortRange(rows, lo, hi) ==
    IF rows = {} THEN <<>>
    ELSE IF lo = hi THEN <<CHOOSE p \in rows : p.prd_id = lo>>
    ELSE LET mid == (lo + hi) \div 2
         IN SortRange({ p \in rows : p.prd_id <= mid }, lo, mid)
            \o SortRange({ p \in rows : p.prd_id > mid }, mid + 1, hi)

\* ORDER BY prd_id
SortByPrdId(rows) ==
    IF rows = {} THEN <<>>
    ELSE LET ids == { p.prd_id : p \in rows }
             lo == CHOOSE i \in ids : \A j \in ids : i <= j
             hi == CHOOSE i \in ids : \A j \in ids : j <= i
         IN SortRange(rows, lo, hi)

Min(a, b) == IF a <= b THEN a ELSE b

\* LIMIT n on a row sequence; a negative n is "no limit" where the store accepts it
Limit(seq, n) == IF n < 0 THEN seq ELSE SubSeq(seq, 1, Min(n, Len(seq)))

\* OFFSET n on a row sequence; a negative n is 0 where the store accepts it
Offset(seq, n) == IF n <= 0 THEN seq ELSE SubSeq(seq, n + 1, Len(seq))

\* select(Product).where(Product.code == code)
SelectByCode(s, code) == SortByPrdId({ p \in s : p.code = code })

\* the page with LIMIT applied before OFFSET
SelectPage_LimitFirst(s, limit, offset) == Offset(Limit(SortByPrdId(s), limit), offset)

\* select(Product).limit(limit).offset(offset).order_by(Product.prd_id)
SelectPage(s, limit, offset) == Limit(Offset(SortByPrdId(s), offset), limit)

\* a statement that deletes what it reads
StoreAfterSelect_Delete(s) == {}

\* a SELECT statement leaves the table as it is
StoreAfterSelect(s) == s

\* limit: int = 100, offset: int = 0
LimitOf(p) == IF p.limit = <<>> THEN DefaultLimit ELSE p.limit[1]
OffsetOf(p) == IF p.offset = <<>> THEN DefaultOffset ELSE p.offset[1]

RowsResult(rows) == [kind |-> "rows", rows |-> rows, text |-> ""]
SqlErrorResult(text) == [kind |-> "sqlerror", rows |-> <<>>, text |-> text]
OtherErrorResult(text) == [kind |-> "other", rows |-> <<>>, text |-> text]

\* What "await db.execute(stmt)" can give for the request's statement: the
\* rows, a store-layer error (always, when the store is down; for a negative
\* LIMIT/OFFSET on the stores that reject it), or an exception of another
\* class raised inside the try block.
ExecuteResults(s, up, ep, p) ==
    IF ~up THEN {SqlErrorResult(TextConnection)}
    ELSE {OtherErrorResult(TextOther)} \cup
         IF ep = "product" THEN {RowsResult(SelectByCode(s, p.code))}
         ELSE {RowsResult(SelectPage(s, LimitOf(p), OffsetOf(p)))} \cup
              IF LimitOf(p) < 0 \/ OffsetOf(p) < 0
              THEN {SqlErrorResult(TextSyntax)} ELSE {}

(***************************************************************************)
(* get_product_by_code and get_products after the await.                   *)
(***************************************************************************)
\* ProductSchema.from_orm(product)
from_orm(product) ==
    [prd_id |-> product.prd_id, code |-> product.code, name |-> product.name]

\* result.scalars().first(): the first row, however many there are
scalar_one_or_none_First(rows) ==
    IF Len(rows) = 0 THEN Return([found |-> FALSE])
    ELSE Return([found |-> TRUE, row |-> rows[1]])

\* result.scalar_one_or_none()
scalar_one_or_none(rows) ==
    IF Len(rows) = 0 THEN Return([found |-> FALSE])
    ELSE IF Len(rows) = 1 THEN Return([found |-> TRUE, row |-> rows[1]])
    ELSE Raise(SQLAlchemyError(TextMultiple))

NotFoundDetail(code) ==
    [error |-> "Product not found", message |-> MsgNotFound, code |-> code]

\* the detail with str(e) as its message
DatabaseErrorDetail_Leak(e) == [error |-> "Database Error", message |-> e.text]

DatabaseErrorDetail(e) == [error |-> "Database Error", message |-> MsgDatabase]

InternalErrorDetail(e) == [error |-> "Internal Server Error", message |-> MsgInternal]

\* the exception db.execute raised, if it raised
ExecuteRaised(res) ==
    IF res.kind = "sqlerror" THEN SQLAlchemyError(res.text) ELSE OtherException(res.text)

\* the try block of get_product_by_code, from the result of the await on
ProductTry(code, res) ==
    IF res.kind # "rows" THEN Raise(ExecuteRaised(res))
    ELSE LET one == scalar_one_or_none(res.rows)
         IN IF one.kind = "raise" THEN one
            ELSE IF ~one.value.found
                 THEN Raise(HTTPException(404, NotFoundDetail(code)))
                 ELSE Return(from_orm(one.value.row))

\* the except clauses without "except HTTPException: raise"
ProductExcept_NoReraise(out) ==
    IF out.kind = "return" THEN out
    ELSE IF out.exc.cls = "SQLAlchemyError"
         THEN Raise(HTTPException(500, DatabaseErrorDetail(out.exc)))
         ELSE Raise(HTTPException(500, InternalErrorDetail(out.exc)))

\* the except clauses of get_product_by_code
ProductExcept(out) ==
    IF out.kind = "return" THEN out
    ELSE IF out.exc.cls = "HTTPException" THEN out
    ELSE IF out.exc.cls = "SQLAlchemyError"
         THEN Raise(HTTPException(500, DatabaseErrorDetail(out.exc)))
         ELSE Raise(HTTPException(500, InternalErrorDetail(out.exc)))

get_product_by_code(code, res) == ProductExcept(ProductTry(code, res))

\* the try block of get_products, from the result of the await on
ProductsTry(res) ==
    IF res.kind # "rows" THEN Raise(ExecuteRaised(res))
    ELSE Return([i \in 1..Len(res.rows) |-> from_orm(res.rows[i])])

\* the except clauses without "except Exception"
ProductsExcept_NoGeneric(out) ==
    IF out.kind = "return" THEN out
    ELSE IF out.exc.cls = "SQLAlchemyError"
         THEN Raise(HTTPException(500, DatabaseErrorDetail(out.exc)))
         ELSE out

\* the except clauses of get_products
ProductsExcept(out) ==
    IF out.kind = "return" THEN out
    ELSE IF out.exc.cls = "SQLAlchemyError"
         THEN Raise(HTTPException(500, DatabaseErrorDetail(out.exc)))
         ELSE Raise(HTTPException(500, InternalErrorDetail(out.exc)))

get_products(res) == ProductsExcept(ProductsTry(res))

(***************************************************************************)
(* The application: how an outcome becomes the response.                   *)
(***************************************************************************)
\* @app.exception_handler(Exception)
global_exception_handler(exc) ==
    [status |-> 500,
     body |-> [error |-> "Internal Server Error",
               message |-> "An unexpected error occurred"]]

\* The application registers a handler for Exception only, so an
\* HTTPException is answered with its status code and {"detail": detail};
\* any other exception reaches global_exception_handler.
Respond(out) ==
    IF out.kind = "return" THEN [status |-> 200, body |-> out.value]
    ELSE IF out.exc.cls = "HTTPException"
         THEN [status |-> out.exc.status_code, body |-> [detail |-> out.exc.detail]]
         ELSE global_exception_handler(out.exc)

\* the validation error of a path parameter out of range
ValidationError == [status |-> 422, body |-> [detail |-> "validation error"]]

\* a health check that asks the store
health_check_Ping ==
    IF storeUp
    THEN [status |-> 200, body |-> [status |-> "healthy", service |-> "tanaka-pos-api"]]
    ELSE [status |-> 503, body |-> [status |-> "unhealthy", service |-> "tanaka-pos-api"]]

\* GET /health
health_check == [status |-> 200, body |-> [status |-> "healthy", service |-> "tanaka-pos-api"]]

\* GET /
root == [status |-> 200, body |-> [message |-> "Tanaka POS API", version |-> "1.0.0"]]

(***************************************************************************)
(* Startup.  create_tables is not part of the sources at hand; it ensures  *)
(* the schema exists, which needs the store, and creates no rows.          *)
(***************************************************************************)
create_tables(up) == IF up THEN "ok" ELSE "raise"

\* lifespan up to its yield: an exception of create_tables is not caught,
\* and then the application never starts serving
lifespan(up) == IF create_tables(up) = "raise" THEN "failed" ELSE "serving"

Startup ==
    /\ phase = "starting"
    /\ phase' = lifespan(storeUp)
    /\ UNCHANGED <<storeUp, store, pc, endpoint, params, result, queried, response>>

(***************************************************************************)
(* The environment: the store goes away and comes back.                    *)
(***************************************************************************)
StoreFails ==
    /\ storeUp
    /\ storeUp' = FALSE
    /\ UNCHANGED <<phase, store, pc, endpoint, params, result, queried, response>>

StoreRecovers ==
    /\ ~storeUp
    /\ storeUp' = TRUE
    /\ UNCHANGED <<phase, store, pc, endpoint, params, result, queried, response>>

(***************************************************************************)
(* Requests.                                                               *)
(***************************************************************************)
\* what starts a request of task r for route ep with parameters p
Begin(r, ep, p) ==
    /\ pc[r] = "idle"
    /\ endpoint' = [endpoint EXCEPT ![r] = ep]
    /\ params' = [params EXCEPT ![r] = p]

\* GET /api/v1/products/{code}: the code is validated before the handler runs
AcceptProduct(r) ==
    /\ phase = "serving"
    /\ \E code \in CodeInputs :
         /\ Begin(r, "product", [NoParams EXCEPT !.code = code])
         /\ IF CodeInRange(code)
            THEN /\ pc' = [pc EXCEPT ![r] = "validated"]
                 /\ UNCHANGED response
            ELSE /\ pc' = [pc EXCEPT ![r] = "done"]
                 /\ response' = [response EXCEPT ![r] = ValidationError]
    /\ UNCHANGED <<phase, storeUp, store, result, queried>>

\* GET /api/v1/products: limit and offset are integers, nothing else is checked
AcceptProducts(r) ==
    /\ phase = "serving"
    /\ \E page \in PageInputs :
         Begin(r, "products",
               [NoParams EXCEPT !.limit = page.limit, !.offset = page.offset])
    /\ pc' = [pc EXCEPT ![r] = "validated"]
    /\ UNCHANGED <<phase, storeUp, store, result, queried, response>>

\* result = await db.execute(stmt)
Execute(r) ==
    /\ pc[r] = "validated"
    /\ \E res \in ExecuteResults(store, storeUp, endpoint[r], params[r]) :
         result' = [result EXCEPT ![r] = res]
    /\ store' = StoreAfterSelect(store)
    /\ queried' = [queried EXCEPT ![r] = TRUE]
    /\ pc' = [pc EXCEPT ![r] = "executed"]
    /\ UNCHANGED <<phase, storeUp, endpoint, params, response>>

\* the rest of the handler and the response
Finish(r) ==
    /\ pc[r] = "executed"
    /\ response' = [response EXCEPT ![r] =
                      Respond(IF endpoint[r] = "product"
                              THEN get_product_by_code(params[r].code, result[r])
                              ELSE get_products(result[r]))]
    /\ pc' = [pc EXCEPT ![r] = "done"]
    /\ UNCHANGED <<phase, storeUp, store, endpoint, params, result, queried>>

\* GET /health
HealthCheck(r) ==
    /\ phase = "serving"
    /\ Begin(r, "health", NoParams)
    /\ response' = [response EXCEPT ![r] = health_check]
    /\ pc' = [pc EXCEPT ![r] = "done"]
    /\ UNCHANGED <<phase, storeUp, store, result, queried>>

\* GET /
Root(r) ==
    /\ phase = "serving"
    /\ Begin(r, "root", NoParams)
    /\ response' = [response EXCEPT ![r] = root]
    /\ pc' = [pc EXCEPT ![r] = "done"]
    /\ UNCHANGED <<phase, storeUp, store, result, queried>>

\* a route whose handler lets an exception escape
Unhandled(r) ==
    /\ phase = "serving"
    /\ Begin(r, "other", NoParams)
    /\ response' = [response EXCEPT ![r] = Respond(Raise(OtherException(TextOther)))]
    /\ pc' = [pc EXCEPT ![r] = "done"]
    /\ UNCHANGED <<phase, storeUp, store, result, queried>>

LivenessRoutes == {"health", "root"}

\* the application did not start: nothing answers
Refuse(r) ==
    /\ phase = "failed"
    /\ \E ep \in LivenessRoutes : Begin(r, ep, NoParams)
    /\ pc' = [pc EXCEPT ![r] = "refused"]
    /\ UNCHANGED <<phase, storeUp, store, result, queried, response>>

\* the task ends
Complete(r) ==
    /\ pc[r] \in {"done", "refused"}
    /\ pc' = [pc EXCEPT ![r] = "idle"]
    /\ endpoint' = [endpoint EXCEPT ![r] = "none"]
    /\ params' = [params EXCEPT ![r] = NoParams]
    /\ result' = [result EXCEPT ![r] = NoResult]
    /\ queried' = [queried EXCEPT ![r] = FALSE]
    /\ response' = [response EXCEPT ![r] = NoResponse]
    /\ UNCHANGED <<phase, storeUp, store>>

Next ==
    \/ Startup
    \/ StoreFails
    \/ StoreRecovers
    \/ \E r \in Requests : AcceptProduct(r)
    \/ \E r \in Requests : AcceptProducts(r)
    \/ \E r \in Requests : Execute(r)
    \/ \E r \in Requests : Finish(r)
    \/ \E r \in Requests : HealthCheck(r)
    \/ \E r \in Requests : Root(r)
    \/ \E r \in Requests : Unhandled(r)
    \/ \E r \in Requests : Refuse(r)
    \/ \E r \in Requests : Complete(r)

Spec == Init /\ [][Next]_vars

(***************************************************************************)
(* Properties.                                                             *)
(***************************************************************************)
ProductRoutes == {"product", "products"}

\* the rows of the store with this code
Matches(code) == { p \in store : p.code = code }

\* no two rows of the store share a code
CodeUnique == Cardinality({ p.code : p \in store }) = Cardinality(store)

\* the error object of a response: top-level, or under "detail"
ErrorFields(body) == IF "detail" \in DOMAIN body THEN body.detail ELSE body

\* C1: for a valid code, a store in which code is unique and no failure of
\* the query, the lookup answers 200 with the row of that code exactly when
\* the store has one, and otherwise 404 with a message and the queried code;
\* the 404 raised in the try block is not turned into a 500.
C1_LookupFoundOrNotFound ==
    \A r \in Requests :
        ( /\ pc[r] = "done"
          /\ endpoint[r] = "product"
          /\ IntLE(IntVal(1), params[r].code)
          /\ IntLE(params[r].code, MaxCode)
          /\ result[r].kind = "rows"
          /\ CodeUnique )
        => LET code == params[r].code
               resp == response[r]
           IN IF Matches(code) # {}
              THEN /\ resp.status = 200
                   /\ resp.body.code = code
                   /\ \E p \in Matches(code) : resp.body.prd_id = p.prd_id
              ELSE /\ resp.status = 404
                   /\ "message" \in DOMAIN ErrorFields(resp.body)
                   /\ ErrorFields(resp.body).code = code

\* C1 witness: one lookup answered 200 and another answered 404
C1_Witness ==
    \E r1, r2 \in Requests :
        /\ pc[r1] = "done" /\ endpoint[r1] = "product" /\ response[r1].status = 200
        /\ pc[r2] = "done" /\ endpoint[r2] = "product" /\ response[r2].status = 404
        /\ CodeUnique

\* C2: on both endpoints a store-layer error of the query gives 500 with
\* error kind "Database Error", and the exception text is nowhere in the body.
C2_StoreErrorIsDatabaseError ==
    \A r \in Requests :
        ( /\ pc[r] = "done"
          /\ endpoint[r] \in ProductRoutes
          /\ result[r].kind = "sqlerror" )
        => /\ response[r].status = 500
           /\ ErrorFields(response[r].body).error = "Database Error"
           /\ \A k \in DOMAIN ErrorFields(response[r].body) :
                ErrorFields(response[r].body)[k] # result[r].text

\* C2 witness: both endpoints have answered a failed query
C2_Witness ==
    \E r1, r2 \in Requests :
        /\ pc[r1] = "done" /\ endpoint[r1] = "product" /\ result[r1].kind = "sqlerror"
        /\ pc[r2] = "done" /\ endpoint[r2] = "products" /\ result[r2].kind = "sqlerror"
        /\ response[r1].status = 500 /\ response[r2].status = 500

\* the fixed generic fallback body
FallbackBody ==
    [error |-> "Internal Server Error", message |-> "An unexpected error occurred"]

\* C3 as stated: an unclassified exception inside either handler gives 500
\* with the fixed generic fallback body (read here as the body's error
\* object, wherever the response carries it).
C3_Original ==
    \A r \in Requests :
        ( /\ pc[r] = "done"
          /\ endpoint[r] \in ProductRoutes
          /\ result[r].kind = "other" )
        => /\ response[r].status = 500
           /\ ErrorFields(response[r].body) = FallbackBody

\* C3 amended: an unclassified exception inside either handler gives 500
\* with error kind "Internal Server Error" and the handlers' own fixed
\* message, without the exception text; the fixed generic fallback body is
\* the answer only where an exception escapes a handler.
C3_Amended ==
    \A r \in Requests :
        /\ ( /\ pc[r] = "done"
             /\ endpoint[r] \in ProductRoutes
             /\ result[r].kind = "other" )
           => /\ response[r].status = 500
              /\ ErrorFields(response[r].body) =
                    [error |-> "Internal Server Error", message |-> MsgInternal]
              /\ MsgInternal # result[r].text
        /\ ( /\ pc[r] = "done"
             /\ response[r].status = 500
             /\ response[r].body = FallbackBody )
           => endpoint[r] = "other"

\* C3 witness: both handlers have answered an unclassified exception
C3_Witness ==
    \E r1, r2 \in Requests :
        /\ pc[r1] = "done" /\ endpoint[r1] = "product" /\ result[r1].kind = "other"
        /\ pc[r2] = "done" /\ endpoint[r2] = "products" /\ result[r2].kind = "other"

\* C4: a code <= 0 or above the configured maximum ends in a validation
\* error and no query is executed for the request; a query is executed only
\* for a code that passed validation.
C4_InvalidCodeNeverQueries ==
    \A r \in Requests :
        endpoint[r] = "product" =>
            LET code == params[r].code
                invalid == IntLE(code, IntVal(0)) \/ ~IntLE(code, MaxCode)
            IN /\ invalid => /\ pc[r] = "done"
                             /\ response[r].status = 422
                             /\ ~queried[r]
                             /\ result[r].kind = "none"
               /\ queried[r] => ~invalid
               /\ pc[r] \in {"validated", "executed"} => ~invalid

\* C4 witness: a code <= 0 and a code above the maximum were both rejected
C4_Witness ==
    \E r1, r2 \in Requests :
        /\ endpoint[r1] = "product" /\ IntLE(params[r1].code, IntVal(0))
        /\ endpoint[r2] = "product" /\ ~IntLE(params[r2].code, MaxCode)
        /\ response[r1].status = 422 /\ response[r2].status = 422

\* the limit and offset the claim gives a request
ClaimedLimit(p) == IF p.limit = <<>> THEN 100 ELSE p.limit[1]
ClaimedOffset(p) == IF p.offset = <<>> THEN 0 ELSE p.offset[1]

\* C5: for non-negative limit L and offset O (100 and 0 when not given) the
\* listing returns the rows ranked O+1 through O+L in ascending prd_id order,
\* fewer when the store has fewer.
C5_PageIsRankedSlice ==
    \A r \in Requests :
        ( /\ pc[r] = "done"
          /\ endpoint[r] = "products"
          /\ result[r].kind = "rows"
          /\ ClaimedLimit(params[r]) >= 0
          /\ ClaimedOffset(params[r]) >= 0 )
        => LET L == ClaimedLimit(params[r])
               O == ClaimedOffset(params[r])
               body == response[r].body
               ids == { p.prd_id : p \in store }
               n == Cardinality(store)
               m == Min(L, IF n > O THEN n - O ELSE 0)
               got == { body[i].prd_id : i \in 1..Len(body) }
           IN /\ response[r].status = 200
              /\ Len(body) = m
              /\ \A i \in 1..(Len(body) - 1) : body[i].prd_id < body[i + 1].prd_id
              /\ { body[i] : i \in 1..Len(body) } \subseteq
                    { [prd_id |-> p.prd_id, code |-> p.code, name |-> p.name] : p \in store }
              /\ m > 0 =>
                    /\ Cardinality({ j \in ids : j < body[1].prd_id }) = O
                    /\ got = { j \in ids : body[1].prd_id <= j /\ j <= body[m].prd_id }

\* C5 witness: limit=2, offset=1 on a store of three rows gave two rows
C5_Witness ==
    \E r \in Requests :
        /\ pc[r] = "done" /\ endpoint[r] = "products"
        /\ params[r].limit = <<2>> /\ params[r].offset = <<1>>
        /\ Cardinality(store) >= 3
        /\ response[r].status = 200
        /\ Len(response[r].body) = 2

\* C6 as stated: every 404 and 500 of the product endpoints has error and
\* message as top-level fields of the body.
C6_ErrorKeysTopLevel ==
    \A r \in Requests :
        ( /\ pc[r] = "done"
          /\ endpoint[r] \in ProductRoutes
          /\ response[r].status \in {404, 500} )
        => {"error", "message"} \subseteq DOMAIN response[r].body

\* C7 as stated: a code passes validation exactly when it is >= 1 and has at
\* most 25 digits; a code of 26 or more digits is rejected.
C7_ValidIsOneTo25Digits ==
    \A r \in Requests :
        endpoint[r] = "product" =>
            LET code == params[r].code
                rejected == pc[r] = "done" /\ response[r].status = 422
            IN /\ (IntLE(IntVal(1), code) /\ Len(code.digits) <= 25) => ~rejected
               /\ Len(code.digits) >= 26 => rejected

\* C8: no step of any request changes the store.
C8_StoreNeverChanges == [][store' = store]_vars

\* C8 witness: two requests have both run their query, interleaved, on a
\* store that has rows
C8_Witness ==
    \E r1, r2 \in Requests :
        /\ r1 # r2
        /\ pc[r1] = "executed" /\ pc[r2] = "done" /\ queried[r2]
        /\ store # {}

C10_SeveralRowsIsDatabaseError ==
    \A r \in Requests :
        ( /\ pc[r] = "done"
          /\ endpoint[r] = "product"
          /\ result[r].kind = "rows" )
        => LET k == Cardinality(Matches(params[r].code))
           IN /\ response[r].status = 200 => k = 1
              /\ k >= 2 => /\ response[r].status = 500
                           /\ ErrorFields(response[r].body).error = "Database Error"

\* C10 witness: a lookup of a code that two rows share was answered
C10_Witness ==
    \E r \in Requests :
        /\ pc[r] = "done" /\ endpoint[r] = "product" /\ result[r].kind = "rows"
        /\ Cardinality(Matches(params[r].code)) >= 2
        /\ response[r].status = 500

====
